---- MODULE Spec2Model ----
(***************************************************************************)
(* Model of png_to_c.py: one run of the script that reads a binary file    *)
(* and writes a C header holding the bytes as an unsigned char array.      *)
(*                                                                         *)
(* Text is a sequence of one-character strings; a file on disk is a        *)
(* sequence of byte values.  f.write(text) appends the ASCII encoding of   *)
(* the text to the buffer of the file object; the buffer reaches the disk  *)
(* when the with block closes the file.  The documents of the model are    *)
(* shorter than the buffer (8192 bytes), so no f.write flushes and no      *)
(* f.write can fail: the one place where writing can fail is the close.    *)
(* Asset names are limited to printable ASCII, where str.upper/str.lower   *)
(* only move the letters a-z / A-Z.                                        *)
(***************************************************************************)
EXTENDS Integers, Sequences, FiniteSets, TLC

VARIABLES argv, fs, fs0, pc, status, exitcode, data, i, io, buf, stdout, stderr

vars == <<argv, fs, fs0, pc, status, exitcode, data, i, io, buf, stdout, stderr>>

(***************************************************************************)
(* Bounds of the model                                                     *)
(***************************************************************************)
\* longest multi-byte input (two full rows of 16 and one ragged value)
MaxLen == 33
\* longest argument vector, program name included
MaxArgc == 5

(***************************************************************************)
(* Characters, bytes and files                                             *)
(***************************************************************************)
\* the printable ASCII characters, code points 32..126 in order (code point
\* 96, the grave accent, is spelled out: the program never writes it)
Printable ==
  <<" ", "!", "\"", "#", "$", "%", "&", "'", "(", ")", "*", "+", ",", "-", ".", "/",
    "0", "1", "2", "3", "4", "5", "6", "7", "8", "9", ":", ";", "<", "=", ">", "?",
    "@", "A", "B", "C", "D", "E", "F", "G", "H", "I", "J", "K", "L", "M", "N", "O",
    "P", "Q", "R", "S", "T", "U", "V", "W", "X", "Y", "Z", "[", "\\", "]", "^", "_",
    "grave", "a", "b", "c", "d", "e", "f", "g", "h", "i", "j", "k", "l", "m", "n", "o",
    "p", "q", "r", "s", "t", "u", "v", "w", "x", "y", "z", "{", "|", "}", "~">>

\* code point of a character written by the program
Ord(c) == IF c = "\n" THEN 10
          ELSE 31 + (CHOOSE k \in 1..Len(Printable) : Printable[k] = c)

\* character of an ASCII code point
Chr(b) == IF b = 10 THEN "\n" ELSE Printable[b - 31]

\* text written to a file opened in text mode becomes these bytes
Encode(text) == [k \in 1..Len(text) |-> Ord(text[k])]

\* the text a file of ASCII bytes holds
Decode(bytes) == [k \in 1..Len(bytes) |-> Chr(bytes[k])]

\* a file that does not exist
Absent == [exists |-> FALSE, bytes |-> <<>>]

\* an existing file with the given content
File(bytes) == [exists |-> TRUE, bytes |-> bytes]

\* the paths of the file system
Paths == {"a.png", "a.h", "b.bin"}

(***************************************************************************)
(* The pieces of the script                                                *)
(***************************************************************************)
\* line 6: the script runs when sys.argv has the program name and 3 arguments
ArgcOkAtLeast(av) == Len(av) >= 4
ArgcOk(av) == Len(av) = 4

\* line 7: the usage line
UsageMessage == "Usage: python3 png_to_c.py <png_file> <output_h_file> <asset_name>"

\* line 10
InputPath(av) == av[2]

\* line 11
OutputPathIsInput(av) == av[2]
OutputPath(av) == av[3]

\* line 12
AssetName(av) == av[4]

\* str.upper() on one ASCII character
UpperChar(c) == IF Ord(c) >= 97 /\ Ord(c) <= 122 THEN Chr(Ord(c) - 32) ELSE c

\* str.lower() on one ASCII character
LowerChar(c) == IF Ord(c) >= 65 /\ Ord(c) <= 90 THEN Chr(Ord(c) + 32) ELSE c

\* line 17
UpperName(name) == [k \in 1..Len(name) |-> UpperChar(name[k])]

\* line 18
VarNameAsGiven(name) == name
VarName(name) == [k \in 1..Len(name) |-> LowerChar(name[k])]

\* line 19
LenName(name) == [k \in 1..Len(name) |-> LowerChar(name[k])] \o <<"_", "l", "e", "n">>

\* lines 22-24: the include guard and the opening of the array
HeaderText(name) ==
  <<"#", "i", "f", "n", "d", "e", "f", " ">> \o UpperName(name) \o <<"_", "H", "\n">>
  \o <<"#", "d", "e", "f", "i", "n", "e", " ">> \o UpperName(name) \o <<"_", "H", "\n", "\n">>
  \o <<"u", "n", "s", "i", "g", "n", "e", "d", " ", "c", "h", "a", "r", " ">>
  \o VarName(name) \o <<"[", "]", " ", "=", " ", "{", "\n">>

\* values per row (lines 27 and 32)
RowWidth == 16

\* the digits of the X format
HexDigits == <<"0", "1", "2", "3", "4", "5", "6", "7",
               "8", "9", "A", "B", "C", "D", "E", "F">>

\* line 29: the format 0x{b:02X}
HexByteNoPad(b) ==
  <<"0", "x">> \o (IF b < 16 THEN <<>> ELSE <<HexDigits[(b \div 16) + 1]>>)
  \o <<HexDigits[(b % 16) + 1]>>
HexByte(b) == <<"0", "x", HexDigits[(b \div 16) + 1], HexDigits[(b % 16) + 1]>>

\* line 27: index k (from 0) starts a row
RowStart(k) == k % RowWidth = 0

\* line 28: the indentation of a row
IndentTwo == <<" ", " ">>
Indent == <<" ", " ", " ", " ">>

\* line 30: a comma follows every value but the last
NeedsCommaAlways(k, n) == k < n
NeedsComma(k, n) == k < n - 1

\* line 32: index k (from 0) ends a full row
RowEndOffByOne(k) == k % RowWidth = RowWidth - 2
RowEnd(k) == k % RowWidth = RowWidth - 1

\* lines 27-35: what one iteration of the loop writes for index k (from 0)
ByteText(k, d) ==
  (IF RowStart(k) THEN Indent ELSE <<>>)
  \o HexByte(d[k + 1])
  \o (IF NeedsComma(k, Len(d)) THEN <<",">> ELSE <<>>)
  \o (IF RowEnd(k) THEN <<"\n">> ELSE <<" ">>)

\* line 36: the newline after a ragged last row
RaggedOrEmpty(n) == n % RowWidth # 0 \/ n = 0
Ragged(n) == n % RowWidth # 0

\* line 39
ClosingText(name) ==
  <<"}", ";", "\n", "u", "n", "s", "i", "g", "n", "e", "d", " ", "i", "n", "t", " ">>
  \o LenName(name) \o <<" ", "=", " ", "s", "i", "z", "e", "o", "f", "(">>
  \o VarName(name) \o <<")", ";", "\n", "\n", "#", "e", "n", "d", "i", "f", "\n">>

\* the statements of the script in the order they run
StepsOpenFirst == <<"check_args", "open_output", "read_input", "write_header",
                    "write_data", "write_closing", "close_output">>
Steps == <<"check_args", "read_input", "open_output", "write_header",
           "write_data", "write_closing", "close_output">>

\* the statement the run is at
Step == IF pc <= Len(Steps) THEN Steps[pc] ELSE "end"

\* f.write(text) on the output file: the encoded text is added to the
\* pending bytes b of the file object, the file on disk is not touched
WriteOut(b, text) == b \o Encode(text)

\* the flush at the close of the file: the disk takes the first n pending bytes
Flush(fsys, av, b, n) ==
  [fsys EXCEPT ![OutputPath(av)] = File(@.bytes \o SubSeq(b, 1, n))]

(***************************************************************************)
(* Inputs                                                                  *)
(***************************************************************************)
\* n bytes start, start+step, ... (mod 256)
Ramp(start, step, n) == [k \in 1..n |-> (start + (k - 1) * step) % 256]

\* the contents of the input file: every single byte, and ramps of every length
Inputs == {<<b>> : b \in 0..255}
          \cup {Ramp(s, d, n) : s \in {0, 200}, d \in {1, 37}, n \in 0..MaxLen}

\* the asset names
Names == {<<"S", "p", "r", "i", "t", "e">>, <<"x">>, <<"i", "c", "o", "n">>,
          <<"I", "m", "g", "_", "2">>}

\* an argument vector of n entries
ArgvOf(n, out, name) ==
  [k \in 1..n |-> IF k = 1 THEN "png_to_c.py"
                  ELSE IF k = 2 THEN "a.png"
                  ELSE IF k = 3 THEN out
                  ELSE IF k = 4 THEN name
                  ELSE "extra"]

\* content of an output file left by an earlier run
Stale == File(<<47, 47, 32, 111, 108, 100, 10>>)

(***************************************************************************)
(* Initial state: the process has started, nothing has run                 *)
(***************************************************************************)
Init ==
  /\ \E n \in 1..MaxArgc, out \in {"a.h", "a.png"}, name \in Names :
       argv = ArgvOf(n, out, name)
  /\ \E inp \in {File(d) : d \in Inputs} \cup {Absent}, old \in {Absent, Stale} :
       fs0 = [p \in Paths |-> IF p = "a.png" THEN inp
                              ELSE IF p = "a.h" THEN old
                              ELSE File(<<7>>)]
  /\ fs = fs0
  /\ pc = 1
  /\ status = "running"
  /\ exitcode = 0
  /\ data = <<>>
  /\ i = 0
  /\ io = <<>>
  /\ buf = <<>>
  /\ stdout = <<>>
  /\ stderr = <<>>

(***************************************************************************)
(* Actions                                                                 *)
(***************************************************************************)
\* lines 6-8
CheckArgs ==
  /\ status = "running" /\ Step = "check_args"
  /\ IF ArgcOk(argv)
       THEN /\ pc' = pc + 1
            /\ UNCHANGED <<status, exitcode, stdout>>
       ELSE /\ stdout' = Append(stdout, UsageMessage)
            /\ status' = "usage_exit"
            /\ exitcode' = 1
            /\ UNCHANGED pc
  /\ UNCHANGED <<argv, fs, fs0, data, i, io, buf, stderr>>

\* lines 14-15: open for reading, read everything, close
ReadInput ==
  /\ status = "running" /\ Step = "read_input"
  /\ fs[InputPath(argv)].exists
  /\ data' = fs[InputPath(argv)].bytes
  /\ io' = io \o <<[op |-> "open", path |-> InputPath(argv), mode |-> "rb", ok |-> TRUE],
                   [op |-> "read", path |-> InputPath(argv), mode |-> "rb", ok |-> TRUE]>>
  /\ pc' = pc + 1
  /\ UNCHANGED <<argv, fs, fs0, status, exitcode, i, buf, stdout, stderr>>

\* line 14 raising: the file is missing or cannot be opened
OpenInputFail ==
  /\ status = "running" /\ Step = "read_input"
  /\ io' = Append(io, [op |-> "open", path |-> InputPath(argv), mode |-> "rb", ok |-> FALSE])
  /\ status' = "io_error"
  /\ exitcode' = 1
  /\ stderr' = Append(stderr, "Traceback (most recent call last):")
  /\ UNCHANGED <<argv, fs, fs0, pc, data, i, buf, stdout>>

\* line 15 raising: the file was opened, f.read() fails; the with block
\* closes the file and the exception ends the script
ReadFail ==
  /\ status = "running" /\ Step = "read_input"
  /\ fs[InputPath(argv)].exists
  /\ io' = io \o <<[op |-> "open", path |-> InputPath(argv), mode |-> "rb", ok |-> TRUE],
                   [op |-> "read", path |-> InputPath(argv), mode |-> "rb", ok |-> FALSE]>>
  /\ status' = "io_error"
  /\ exitcode' = 1
  /\ stderr' = Append(stderr, "Traceback (most recent call last):")
  /\ UNCHANGED <<argv, fs, fs0, pc, data, i, buf, stdout>>

\* line 21: open for writing creates the file or truncates it
OpenOutput ==
  /\ status = "running" /\ Step = "open_output"
  /\ fs' = [fs EXCEPT ![OutputPath(argv)] = File(<<>>)]
  /\ io' = Append(io, [op |-> "open", path |-> OutputPath(argv), mode |-> "w", ok |-> TRUE])
  /\ buf' = <<>>
  /\ pc' = pc + 1
  /\ UNCHANGED <<argv, fs0, status, exitcode, data, i, stdout, stderr>>

\* line 21 raising: the file cannot be created
OpenFail ==
  /\ status = "running" /\ Step = "open_output"
  /\ io' = Append(io, [op |-> "open", path |-> OutputPath(argv), mode |-> "w", ok |-> FALSE])
  /\ status' = "io_error"
  /\ exitcode' = 1
  /\ stderr' = Append(stderr, "Traceback (most recent call last):")
  /\ UNCHANGED <<argv, fs, fs0, pc, data, i, buf, stdout>>

\* lines 22-24
WriteHeader ==
  /\ status = "running" /\ Step = "write_header"
  /\ buf' = WriteOut(buf, HeaderText(AssetName(argv)))
  /\ pc' = pc + 1
  /\ UNCHANGED <<argv, fs, fs0, status, exitcode, data, i, io, stdout, stderr>>

\* lines 26-35: one iteration of the loop
WriteByte ==
  /\ status = "running" /\ Step = "write_data"
  /\ i < Len(data)
  /\ buf' = WriteOut(buf, ByteText(i, data))
  /\ i' = i + 1
  /\ UNCHANGED <<argv, fs, fs0, pc, status, exitcode, data, io, stdout, stderr>>

\* lines 36-37: the loop is over
RaggedNewline ==
  /\ status = "running" /\ Step = "write_data"
  /\ i = Len(data)
  /\ buf' = IF Ragged(Len(data)) THEN WriteOut(buf, <<"\n">>) ELSE buf
  /\ pc' = pc + 1
  /\ UNCHANGED <<argv, fs, fs0, status, exitcode, data, i, io, stdout, stderr>>

\* line 39
WriteClosing ==
  /\ status = "running" /\ Step = "write_closing"
  /\ buf' = WriteOut(buf, ClosingText(AssetName(argv)))
  /\ pc' = pc + 1
  /\ UNCHANGED <<argv, fs, fs0, status, exitcode, data, i, io, stdout, stderr>>

\* end of the with block and of the script: closing the file flushes the
\* pending bytes to the disk, exit code 0
CloseOutput ==
  /\ status = "running" /\ Step = "close_output"
  /\ fs' = Flush(fs, argv, buf, Len(buf))
  /\ buf' = <<>>
  /\ status' = "done"
  /\ exitcode' = 0
  /\ pc' = pc + 1
  /\ UNCHANGED <<argv, fs0, data, i, io, stdout, stderr>>

\* end of the with block raising: the disk accepts only the first lim pending
\* bytes, any number short of all of them (file size limit, disk full), the
\* flush raises OSError, which ends the script with a traceback; what reached
\* the disk stays there
CloseFail ==
  /\ status = "running" /\ Step = "close_output"
  /\ \E lim \in 0..(Len(buf) - 1) :
       /\ fs' = Flush(fs, argv, buf, lim)
       /\ buf' = SubSeq(buf, lim + 1, Len(buf))
  /\ status' = "io_error"
  /\ exitcode' = 1
  /\ stderr' = Append(stderr, "Traceback (most recent call last):")
  /\ UNCHANGED <<argv, fs0, pc, data, i, io, stdout>>

Next ==
  \/ CheckArgs
  \/ ReadInput
  \/ OpenInputFail
  \/ ReadFail
  \/ OpenOutput
  \/ OpenFail
  \/ WriteHeader
  \/ WriteByte
  \/ RaggedNewline
  \/ WriteClosing
  \/ CloseOutput
  \/ CloseFail

Spec == Init /\ [][Next]_vars

(***************************************************************************)
(* Reading the result                                                      *)
(***************************************************************************)
\* the run ended with exit code 0
Done == status = "done"

\* the bytes the input file held before the run
Original == fs0[argv[2]].bytes

\* the text of the output file
Doc == Decode(fs[argv[3]].bytes)

\* position of the first occurrence of character c in text s
FirstPos(s, c) == CHOOSE k \in 1..Len(s) : s[k] = c /\ \A j \in 1..(k - 1) : s[j] # c

\* the text strictly between the opening and the closing brace
Between(s) == SubSeq(s, FirstPos(s, "{") + 1, FirstPos(s, "}") - 1)

\* the text after the array opening line and before the closing brace
DataLines(s) == SubSeq(s, FirstPos(s, "{") + 2, FirstPos(s, "}") - 1)

\* s contains t as a contiguous piece
Contains(s, t) == \E k \in 1..(Len(s) - Len(t) + 1) : SubSeq(s, k, k + Len(t) - 1) = t

\* value of a hexadecimal digit, -1 for any other character
HexVal(c) == IF c \in {"0", "1", "2", "3", "4", "5", "6", "7", "8", "9"}
               THEN Ord(c) - 48
             ELSE IF c \in {"A", "B", "C", "D", "E", "F", "a", "b", "c", "d", "e", "f"}
               THEN (Ord(c) % 32) + 9
             ELSE -1

\* the bytes of the 0xNN tokens of s from position k on, in order of appearance
RECURSIVE ParseFrom(_, _)
ParseFrom(s, k) ==
  IF k + 3 > Len(s) THEN <<>>
  ELSE IF s[k] = "0" /\ s[k + 1] = "x" /\ HexVal(s[k + 2]) >= 0 /\ HexVal(s[k + 3]) >= 0
         THEN <<16 * HexVal(s[k + 2]) + HexVal(s[k + 3])>> \o ParseFrom(s, k + 4)
         ELSE ParseFrom(s, k + 1)

\* positions of the newlines of s
NewlinePos(s) == {k \in 1..Len(s) : s[k] = "\n"}

\* positions of the x of every 0x of s
TokenPos(s) == {k \in 2..Len(s) : s[k] = "x" /\ s[k - 1] = "0"}

\* the r-th smallest element (r from 1) of a set of positions
Nth(S, r) == CHOOSE p \in S : Cardinality({q \in S : q < p}) = r - 1

\* number of values on the r-th line (r from 1) of s
ValuesOnLine(s, r) ==
  LET first == IF r = 1 THEN 1 ELSE Nth(NewlinePos(s), r - 1) + 1
      last  == Nth(NewlinePos(s), r)
  IN  Cardinality({k \in TokenPos(s) : k >= first /\ k <= last})

(***************************************************************************)
(* C1: parsing the 0xNN tokens of the array body back, in order, gives the *)
(* bytes of the input file: same length, same values, same order.          *)
(***************************************************************************)
C1_RoundTrip == Done => ParseFrom(Between(Doc), 1) = Original

C1_Witness ==
  /\ Done
  /\ Len(Original) >= 17
  /\ \E k \in 1..Len(Original) : Original[k] >= 160
  /\ \E k \in 1..Len(Original) : Original[k] < 16

(***************************************************************************)
(* C2 as stated: for an empty input the text between the braces is two     *)
(* newlines.                                                               *)
(***************************************************************************)
C2_Original == (Done /\ Len(Original) = 0) => Between(Doc) = <<"\n", "\n">>

(***************************************************************************)
(* C2 amended: for an empty input no extra newline is written; the text    *)
(* between the braces is the one newline of the array opening line.        *)
(***************************************************************************)
C2_Amended == (Done /\ Len(Original) = 0) => Between(Doc) = <<"\n">>

C2_Witness == Done /\ Len(Original) = 0 /\ fs0[argv[2]].exists

(***************************************************************************)
(* C3 as stated: for the input [0x00] and the name x the document contains *)
(* the array with the value followed directly by the newline before the    *)
(* closing brace.                                                          *)
(***************************************************************************)
C3_Original ==
  (Done /\ Original = <<0>> /\ argv[4] = <<"x">>) =>
    Contains(Doc,
      <<"u", "n", "s", "i", "g", "n", "e", "d", " ", "c", "h", "a", "r", " ", "x",
        "[", "]", " ", "=", " ", "{", "\n",
        " ", " ", " ", " ", "0", "x", "0", "0", "\n",
        "}", ";", "\n",
        "u", "n", "s", "i", "g", "n", "e", "d", " ", "i", "n", "t", " ",
        "x", "_", "l", "e", "n", " ", "=", " ", "s", "i", "z", "e", "o", "f", "(",
        "x", ")", ";">>)

(***************************************************************************)
(* C3 amended: for the input [0x00] and the name x the document contains   *)
(* the array with the value followed by one space and then the newline     *)
(* before the closing brace.                                               *)
(***************************************************************************)
C3_Amended ==
  (Done /\ Original = <<0>> /\ argv[4] = <<"x">>) =>
    Contains(Doc,
      <<"u", "n", "s", "i", "g", "n", "e", "d", " ", "c", "h", "a", "r", " ", "x",
        "[", "]", " ", "=", " ", "{", "\n",
        " ", " ", " ", " ", "0", "x", "0", "0", " ", "\n",
        "}", ";", "\n",
        "u", "n", "s", "i", "g", "n", "e", "d", " ", "i", "n", "t", " ",
        "x", "_", "l", "e", "n", " ", "=", " ", "s", "i", "z", "e", "o", "f", "(",
        "x", ")", ";">>)

C3_Witness == Done /\ Original = <<0>> /\ argv[4] = <<"x">> /\ fs0[argv[2]].exists

(***************************************************************************)
(* C4: with an argument count other than 3 the run ends with exit code 1   *)
(* and no file is opened, created or modified.                             *)
(***************************************************************************)
C4_UsageNoIO ==
  Len(argv) # 4 =>
    /\ io = <<>>
    /\ fs = fs0
    /\ status \in {"running", "usage_exit"}
    /\ status = "usage_exit" => exitcode = 1

C4_Witness == status = "usage_exit" /\ Len(argv) > 4 /\ io = <<>> /\ exitcode = 1

(***************************************************************************)
(* C5 as stated: with an argument count other than 3 the usage message is  *)
(* on standard error and standard output is empty.                         *)
(***************************************************************************)
C5_UsageOnStderr ==
  (Len(argv) # 4 /\ status # "running") =>
    /\ \E k \in 1..Len(stderr) : stderr[k] = UsageMessage
    /\ stdout = <<>>

(***************************************************************************)
(* C6 as stated: whatever the two paths are, the file at the input path    *)
(* holds after the run what it held before, and no file but the one at the *)
(* output path changes.                                                    *)
(***************************************************************************)
C6_Original ==
  Done => /\ fs[argv[2]] = fs0[argv[2]]
          /\ \A p \in Paths \ {argv[3]} : fs[p] = fs0[p]

(***************************************************************************)
(* C6 amended: no file but the one at the output path is ever created or   *)
(* changed, so the input file is unchanged when the two paths differ; when *)
(* both name the same file, the run replaces its content by the document.  *)
(***************************************************************************)
C6_Amended ==
  Len(argv) = 4 =>
    /\ \A p \in Paths \ {argv[3]} : fs[p] = fs0[p]
    /\ argv[2] # argv[3] => fs[argv[2]] = fs0[argv[2]]
    /\ (Done /\ argv[2] = argv[3]) => fs[argv[2]] # fs0[argv[2]]

C6_Witness ==
  /\ Done
  /\ argv[2] # argv[3]
  /\ fs[argv[3]] # fs0[argv[3]]
  /\ fs[argv[2]] = fs0[argv[2]]

(***************************************************************************)
(* C7: for N > 0 the array body is exactly ceil(N/16) newline-terminated   *)
(* data lines with no blank line; every line but the last holds 16 values  *)
(* and the last holds the rest; nothing follows the newline of the last    *)
(* row, also when N is a multiple of 16.                                   *)
(***************************************************************************)
C7_DataLines ==
  (Done /\ Len(Original) > 0) =>
    LET n    == Len(Original)
        rows == (n + 15) \div 16
        body == DataLines(Doc)
    IN  /\ Doc[FirstPos(Doc, "{") + 1] = "\n"
        /\ Len(body) > 0
        /\ body[Len(body)] = "\n"
        /\ Cardinality(NewlinePos(body)) = rows
        /\ body[1] # "\n"
        /\ \A k \in NewlinePos(body) : k > 1 => body[k - 1] # "\n"
        /\ \A r \in 1..rows :
             ValuesOnLine(body, r) = IF r < rows THEN 16 ELSE n - 16 * (rows - 1)

C7_Witness ==
  /\ Done
  /\ Len(Original) = 17
  /\ Cardinality(NewlinePos(DataLines(Doc))) = 2
  /\ ValuesOnLine(DataLines(Doc), 2) = 1

(***************************************************************************)
(* C8: the document is the guard lines, a blank line, the array opening    *)
(* line, the data lines, the closing line, the length line, a blank line   *)
(* and the guard end, with the names derived from the asset name, and      *)
(* nothing else.                                                           *)
(***************************************************************************)
\* the guard of each asset name, written out
ExpectedGuard(name) ==
  CASE name = <<"S", "p", "r", "i", "t", "e">> -> <<"S", "P", "R", "I", "T", "E", "_", "H">>
    [] name = <<"x">> -> <<"X", "_", "H">>
    [] name = <<"i", "c", "o", "n">> -> <<"I", "C", "O", "N", "_", "H">>
    [] name = <<"I", "m", "g", "_", "2">> -> <<"I", "M", "G", "_", "2", "_", "H">>

\* the array name of each asset name, written out
ExpectedVar(name) ==
  CASE name = <<"S", "p", "r", "i", "t", "e">> -> <<"s", "p", "r", "i", "t", "e">>
    [] name = <<"x">> -> <<"x">>
    [] name = <<"i", "c", "o", "n">> -> <<"i", "c", "o", "n">>
    [] name = <<"I", "m", "g", "_", "2">> -> <<"i", "m", "g", "_", "2">>

\* the document up to and including the array opening line
ExpectedHead(name) ==
  <<"#", "i", "f", "n", "d", "e", "f", " ">> \o ExpectedGuard(name) \o <<"\n">>
  \o <<"#", "d", "e", "f", "i", "n", "e", " ">> \o ExpectedGuard(name) \o <<"\n">>
  \o <<"\n">>
  \o <<"u", "n", "s", "i", "g", "n", "e", "d", " ", "c", "h", "a", "r", " ">>
  \o ExpectedVar(name) \o <<"[", "]", " ", "=", " ", "{", "\n">>

\* the document from the closing line on
ExpectedTail(name) ==
  <<"}", ";", "\n">>
  \o <<"u", "n", "s", "i", "g", "n", "e", "d", " ", "i", "n", "t", " ">>
  \o ExpectedVar(name) \o <<"_", "l", "e", "n">>
  \o <<" ", "=", " ", "s", "i", "z", "e", "o", "f", "(">> \o ExpectedVar(name)
  \o <<")", ";", "\n">>
  \o <<"\n">>
  \o <<"#", "e", "n", "d", "i", "f", "\n">>

\* the characters data lines are made of
DataChars == {"0", "1", "2", "3", "4", "5", "6", "7", "8", "9",
              "A", "B", "C", "D", "E", "F", "x", ",", " ", "\n"}

C8_Document ==
  Done =>
    LET head == ExpectedHead(argv[4])
        tail == ExpectedTail(argv[4])
        mid  == SubSeq(Doc, Len(head) + 1, Len(Doc) - Len(tail))
    IN  /\ Len(Doc) >= Len(head) + Len(tail)
        /\ SubSeq(Doc, 1, Len(head)) = head
        /\ SubSeq(Doc, Len(Doc) - Len(tail) + 1, Len(Doc)) = tail
        /\ \A k \in 1..Len(mid) : mid[k] \in DataChars
        /\ Len(mid) > 0 => mid[Len(mid)] = "\n"
        /\ Cardinality(TokenPos(mid)) = Len(Original)

C8_Witness ==
  /\ Done
  /\ argv[4] = <<"S", "p", "r", "i", "t", "e">>
  /\ Len(Original) > 16
  /\ Contains(Doc, <<"S", "P", "R", "I", "T", "E", "_", "H">>)
  /\ Contains(Doc, <<"s", "p", "r", "i", "t", "e", "_", "l", "e", "n">>)

(***************************************************************************)
(* C9: the output file is opened only after the input file has been read;  *)
(* when the input cannot be opened the run fails and the output file is    *)
(* neither created nor truncated; when writing the output fails, the run   *)
(* fails and the output file keeps the part of the document that reached   *)
(* it: no file is removed or restored, and nothing runs after the failure. *)
(***************************************************************************)
\* an entry of the log of file operations is a successful open for writing
IsOpenW(e) == e.op = "open" /\ e.mode = "w" /\ e.ok

\* an entry of the log is the completed read of path p
IsReadOf(e, p) == e.op = "read" /\ e.path = p /\ e.ok

\* s is the beginning of t, and shorter
IsProperPrefix(s, t) == Len(s) < Len(t) /\ s = SubSeq(t, 1, Len(s))

C9_ReadBeforeOpen ==
  /\ [](/\ \A k \in 1..Len(io) :
             IsOpenW(io[k]) => \E j \in 1..(k - 1) : IsReadOf(io[j], argv[2])
        /\ (Len(argv) = 4 /\ ~(\E j \in 1..Len(io) : IsReadOf(io[j], argv[2]))) =>
             fs[argv[3]] = fs0[argv[3]]
        /\ (status = "io_error") => exitcode # 0
        /\ (status = "io_error" /\ \E k \in 1..Len(io) : IsOpenW(io[k])) =>
             /\ fs[argv[3]].exists
             /\ \A p \in Paths \ {argv[3]} : fs[p] = fs0[p])
  /\ [][/\ status = "io_error" => fs' = fs
        /\ (status' = "io_error" /\ \E k \in 1..Len(io) : IsOpenW(io[k])) =>
             IsProperPrefix(fs'[argv[3]].bytes, buf)]_vars

C9_Witness ==
  /\ status = "io_error"
  /\ \E k \in 1..Len(io) : IsOpenW(io[k])
  /\ fs[argv[3]].exists
  /\ Len(fs[argv[3]].bytes) > 0
  /\ Len(buf) > 0
  /\ fs[argv[3]] # fs0[argv[3]]
  /\ argv[2] # argv[3]

(***************************************************************************)
(* C10: every value but the last is immediately followed by a comma and    *)
(* the last by none; then comes a newline after the 16th value of a row    *)
(* and one space after any other value, so the last value of a ragged row  *)
(* is followed by a space and then the newline.                            *)
(***************************************************************************)
C10_Separators ==
  Done =>
    LET n    == Len(Original)
        body == Between(Doc)
    IN  /\ Cardinality(TokenPos(body)) = n
        /\ \A k \in 0..(n - 1) :
             LET after == Nth(TokenPos(body), k + 1) + 3
                 sep   == IF body[after] = "," THEN after + 1 ELSE after
             IN  /\ body[after] = "," <=> k < n - 1
                 /\ body[sep] = IF k % 16 = 15 THEN "\n" ELSE " "
                 /\ (k = n - 1 /\ n % 16 # 0) =>
                      /\ Len(body) = sep + 1
                      /\ body[sep + 1] = "\n"
                 /\ (k = n - 1 /\ n % 16 = 0) => Len(body) = sep

C10_Witness ==
  /\ Done
  /\ Len(Original) = 18
  /\ Cardinality({k \in 1..Len(Doc) : Doc[k] = ","}) = 17

====
